---- MODULE Spec2Model ----
(***************************************************************************)
(* Model of tui-pattern-highlighter (src/src/lib.rs): highlight_line and   *)
(* highlight_text.  Strings are sequences of one-character strings and     *)
(* offsets are 0-based, as in the Rust source; a Span is a record of its   *)
(* content and its style, a Line a sequence of Spans, a Text a sequence of *)
(* Lines.                                                                  *)
(***************************************************************************)
EXTENDS Integers, Sequences, FiniteSets, TLC

\* ------------------------------------------------------------- bounds
\* Longest input string the calls are given.
MaxLen == 4

\* ------------------------------------------------------------- inputs
NL == "\n"

Chars == {"a", "b", NL}

RECURSIVE StringsUpTo(_)
StringsUpTo(n) ==
    IF n = 0 THEN {<<>>}
    ELSE LET shorter == StringsUpTo(n - 1)
         IN  shorter \cup {Append(s, c) : s \in {t \in shorter : Len(t) = n - 1}, c \in Chars}

Strings == StringsUpTo(MaxLen)

\* Style::default() (what Span::from gives a span) and one non-default style.
DefaultStyle == "default"

Styles == {DefaultStyle, "bg_blue"}

\* The patterns the calls are given; "(" does not compile.
ValidPatterns == {"a", "a+", "a*", "ab", "[^a]+"}

Patterns == ValidPatterns \cup {"("}

\* ------------------------------------------------------------- regex
\* Regex::new(pattern) is Ok exactly for a syntactically valid pattern.
RegexNew(pattern) == pattern \in ValidPatterns

\* Number of consecutive characters of s from offset i on that lie in set.
RECURSIVE RunLen(_, _, _)
RunLen(s, i, set) ==
    IF i < Len(s) /\ s[i + 1] \in set THEN 1 + RunLen(s, i + 1, set) ELSE 0

\* End offset of the (leftmost-first, greedy) match of pattern that starts
\* at offset i of s, or -1 when none starts there.
MatchEndAt(s, pattern, i) ==
    CASE pattern = "a"     -> IF RunLen(s, i, {"a"}) >= 1 THEN i + 1 ELSE -1
      [] pattern = "a+"    -> IF RunLen(s, i, {"a"}) >= 1 THEN i + RunLen(s, i, {"a"}) ELSE -1
      [] pattern = "a*"    -> i + RunLen(s, i, {"a"})
      [] pattern = "ab"    -> IF i + 2 <= Len(s) /\ s[i + 1] = "a" /\ s[i + 2] = "b"
                              THEN i + 2 ELSE -1
      [] pattern = "[^a]+" -> IF RunLen(s, i, Chars \ {"a"}) >= 1
                              THEN i + RunLen(s, i, Chars \ {"a"}) ELSE -1
      [] OTHER             -> -1

NoMatch == [start |-> -1, end |-> -1]

\* One search of the haystack s from offset at: the leftmost match, or NoMatch.
RECURSIVE Search(_, _, _)
Search(s, pattern, at) ==
    IF at > Len(s) THEN NoMatch
    ELSE IF MatchEndAt(s, pattern, at) >= 0
         THEN [start |-> at, end |-> MatchEndAt(s, pattern, at)]
         ELSE Search(s, pattern, at + 1)

\* The iterator behind find_iter: successive non-overlapping matches; an
\* empty match that ends where the previous match ended is skipped by
\* searching again one offset further.
RECURSIVE FindFrom(_, _, _, _)
FindFrom(s, pattern, at, last_match_end) ==
    LET m1 == Search(s, pattern, at)
        m  == IF m1 # NoMatch /\ m1.start = m1.end /\ m1.end = last_match_end
              THEN Search(s, pattern, at + 1)
              ELSE m1
    IN  IF m = NoMatch THEN <<>>
        ELSE <<m>> \o FindFrom(s, pattern, m.end, m.end)

\* reg.find_iter(&line).collect::<Vec<_>>()
FindIter(s, pattern) == FindFrom(s, pattern, 0, -1)

\* ------------------------------------------------------------- spans
\* s[lo..hi]; Rust panics when the range is not inside the string.
SliceInRange(s, lo, hi) == 0 <= lo /\ lo <= hi /\ hi <= Len(s)

Slice(s, lo, hi) == SubSeq(s, lo + 1, hi)

\* Span::from(content)
SpanFrom(content) == [content |-> content, style |-> DefaultStyle]

\* Span::from(content).style(style)
SpanStyled(content, style) == [content |-> content, style |-> style]

\* ------------------------------------------------------------- highlight_line
\* The loop state of highlight_line: the spans pushed so far, the cursor,
\* and whether a slice has panicked.
LineStart == [spans |-> <<>>, last_index |-> 0, panicked |-> FALSE]

\* LineBody whose gap guard is >= : it pushes a span for an empty gap too.
LineBody_EmptyGap(line, highlight_style, acc, m) ==
    [spans      |-> Append(IF m.start >= acc.last_index
                           THEN Append(acc.spans,
                                       SpanFrom(Slice(line, acc.last_index, m.start)))
                           ELSE acc.spans,
                           SpanStyled(Slice(line, m.start, m.end), highlight_style)),
     last_index |-> m.end,
     panicked   |-> FALSE]

\* LineBody that advances the cursor to the start of the match, not its end.
LineBody_CursorAtStart(line, highlight_style, acc, m) ==
    [spans      |-> Append(IF m.start > acc.last_index
                           THEN Append(acc.spans,
                                       SpanFrom(Slice(line, acc.last_index, m.start)))
                           ELSE acc.spans,
                           SpanStyled(Slice(line, m.start, m.end), highlight_style)),
     last_index |-> m.start,
     panicked   |-> FALSE]

\* LineBody that pushes the gap and the match as one styled span.
LineBody_Merged(line, highlight_style, acc, m) ==
    [spans      |-> Append(acc.spans,
                           SpanStyled(Slice(line, acc.last_index, m.end), highlight_style)),
     last_index |-> m.end,
     panicked   |-> FALSE]

\* One iteration of `for m in reg.find_iter(&line)`.
LineBody(line, highlight_style, acc, m) ==
    LET gap     == m.start > acc.last_index
        withGap == IF gap
                   THEN Append(acc.spans, SpanFrom(Slice(line, acc.last_index, m.start)))
                   ELSE acc.spans
    IN  IF gap /\ ~SliceInRange(line, acc.last_index, m.start)
        THEN [acc EXCEPT !.panicked = TRUE]
        ELSE [spans      |-> Append(withGap,
                                    SpanStyled(Slice(line, m.start, m.end), highlight_style)),
              last_index |-> m.end,
              panicked   |-> FALSE]

\* LineTail whose guard is >= : it pushes a trailing span at the end of the line too.
LineTail_AtEnd(line, acc) ==
    IF Len(line) >= acc.last_index
    THEN [acc EXCEPT !.spans = Append(acc.spans,
                                      SpanFrom(Slice(line, acc.last_index, Len(line))))]
    ELSE acc

\* LineTail whose trailing span stops one character short.
LineTail_Short(line, acc) ==
    IF Len(line) > acc.last_index
    THEN [acc EXCEPT !.spans = Append(acc.spans,
                                      SpanFrom(Slice(line, acc.last_index, Len(line) - 1)))]
    ELSE acc

\* LineTail that forgets the trailing span.
LineTail_NoTrailing(line, acc) == acc

\* `if line.len() > last_index { push_span(line[last_index..]) }`
LineTail(line, acc) ==
    IF Len(line) > acc.last_index
    THEN IF ~SliceInRange(line, acc.last_index, Len(line))
         THEN [acc EXCEPT !.panicked = TRUE]
         ELSE [acc EXCEPT !.spans = Append(acc.spans,
                                           SpanFrom(Slice(line, acc.last_index, Len(line))))]
    ELSE acc

\* The whole loop, from its k-th match on.
RECURSIVE LineFold(_, _, _, _, _)
LineFold(line, highlight_style, acc, ms, k) ==
    IF k > Len(ms) \/ acc.panicked THEN acc
    ELSE LineFold(line, highlight_style, LineBody(line, highlight_style, acc, ms[k]), ms, k + 1)

\* highlight_line as a function of its arguments: the Line it returns, or a
\* panic (of Regex::new(..).unwrap(), or of a slice).
HighlightLine(line, pattern, highlight_style) ==
    IF ~RegexNew(pattern)
    THEN [LineStart EXCEPT !.panicked = TRUE]
    ELSE LET acc == LineFold(line, highlight_style, LineStart, FindIter(line, pattern), 1)
         IN  IF acc.panicked THEN acc ELSE LineTail(line, acc)

\* ------------------------------------------------------------- highlight_text
\* text.match_indices('\n'): the offsets of the newlines, in increasing order.
RECURSIVE NewlinesFrom(_, _)
NewlinesFrom(text, i) ==
    IF i >= Len(text) THEN <<>>
    ELSE IF text[i + 1] = NL THEN <<i>> \o NewlinesFrom(text, i + 1)
         ELSE NewlinesFrom(text, i + 1)

MatchIndices(text) == NewlinesFrom(text, 0)

\* The loop state of highlight_text.
TextStart == [lines |-> <<>>, last_index |-> 0, panicked |-> FALSE]

\* PushLine that highlights the whole rest of the text, not the segment.
PushLine_ToEnd(text, pattern, highlight_style, acc, lo, hi) ==
    LET r == HighlightLine(Slice(text, lo, Len(text)), pattern, highlight_style)
    IN  IF r.panicked
        THEN [acc EXCEPT !.panicked = TRUE]
        ELSE [acc EXCEPT !.lines = Append(acc.lines, r.spans)]

\* push_line(highlight_line(text[lo..hi].to_string(), pattern, highlight_style))
PushLine(text, pattern, highlight_style, acc, lo, hi) ==
    IF ~SliceInRange(text, lo, hi)
    THEN [acc EXCEPT !.panicked = TRUE]
    ELSE LET r == HighlightLine(Slice(text, lo, hi), pattern, highlight_style)
         IN  IF r.panicked
             THEN [acc EXCEPT !.panicked = TRUE]
             ELSE [acc EXCEPT !.lines = Append(acc.lines, r.spans)]

\* TextBody that advances the cursor to the newline, not past it.
TextBody_CursorAtNewline(text, pattern, highlight_style, acc, i) ==
    LET pushed == PushLine(text, pattern, highlight_style, acc, acc.last_index, i)
    IN  IF pushed.panicked THEN pushed ELSE [pushed EXCEPT !.last_index = i]

\* One iteration of `for (i, _) in text.match_indices('\n')`.
TextBody(text, pattern, highlight_style, acc, i) ==
    LET pushed == PushLine(text, pattern, highlight_style, acc, acc.last_index, i)
    IN  IF pushed.panicked THEN pushed ELSE [pushed EXCEPT !.last_index = i + 1]

\* TextTail whose guard is >= : it pushes a Line for an empty trailing segment too.
TextTail_AtEnd(text, pattern, highlight_style, acc) ==
    IF Len(text) >= acc.last_index
    THEN PushLine(text, pattern, highlight_style, acc, acc.last_index, Len(text))
    ELSE acc

\* `if text.len() > last_index { push_line(highlight_line(text[last_index..])) }`
TextTail(text, pattern, highlight_style, acc) ==
    IF Len(text) > acc.last_index
    THEN PushLine(text, pattern, highlight_style, acc, acc.last_index, Len(text))
    ELSE acc

RECURSIVE TextFold(_, _, _, _, _, _)
TextFold(text, pattern, highlight_style, acc, nls, k) ==
    IF k > Len(nls) \/ acc.panicked THEN acc
    ELSE TextFold(text, pattern, highlight_style,
                  TextBody(text, pattern, highlight_style, acc, nls[k]), nls, k + 1)

\* highlight_text as a function of its arguments.
HighlightText(text, pattern, highlight_style) ==
    LET acc == TextFold(text, pattern, highlight_style, TextStart, MatchIndices(text), 1)
    IN  IF acc.panicked THEN acc ELSE TextTail(text, pattern, highlight_style, acc)

\* ------------------------------------------------------------- state machine
VARIABLES
    op,               \* the public function called: "none", "line" or "text"
    line,             \* highlight_line's argument
    text,             \* highlight_text's argument
    pattern,
    highlight_style,
    pc,               \* "idle", "line_compile", "line_loop", "text_loop", "done", "panicked"
    last_index,       \* the cursor of the running function
    matches,          \* the collected Vec of matches (highlight_line)
    mi,               \* position of the for loop in matches / in match_indices
    highlighted_line, \* highlight_line's Line
    highlighted_text  \* highlight_text's Text

vars == <<op, line, text, pattern, highlight_style, pc, last_index, matches, mi,
          highlighted_line, highlighted_text>>

Init ==
    /\ op = "none"
    /\ line = <<>>
    /\ text = <<>>
    /\ pattern = "a"
    /\ highlight_style = DefaultStyle
    /\ pc = "idle"
    /\ last_index = 0
    /\ matches = <<>>
    /\ mi = 1
    /\ highlighted_line = <<>>
    /\ highlighted_text = <<>>

\* highlight_line(line, pattern, highlight_style) is called:
\* `let mut highlighted_line = Line::default();`
CallHighlightLine ==
    /\ pc = "idle"
    /\ \E s \in Strings, p \in Patterns, st \in Styles :
          /\ line' = s
          /\ pattern' = p
          /\ highlight_style' = st
    /\ op' = "line"
    /\ pc' = "line_compile"
    /\ highlighted_line' = <<>>
    /\ UNCHANGED <<text, last_index, matches, mi, highlighted_text>>

\* `let reg = Regex::new(pattern.as_ref()).unwrap(); let mut last_index = 0;`
\* and the collection of the matches.
LineCompile ==
    /\ pc = "line_compile"
    /\ IF RegexNew(pattern)
       THEN /\ pc' = "line_loop"
            /\ matches' = FindIter(line, pattern)
            /\ mi' = 1
            /\ last_index' = 0
       ELSE /\ pc' = "panicked"
            /\ UNCHANGED <<matches, mi, last_index>>
    /\ UNCHANGED <<op, line, text, pattern, highlight_style, highlighted_line,
                   highlighted_text>>

\* One iteration of highlight_line's for loop.
LineLoop ==
    /\ pc = "line_loop"
    /\ mi <= Len(matches)
    /\ LET acc == LineBody(line, highlight_style,
                           [spans |-> highlighted_line, last_index |-> last_index,
                            panicked |-> FALSE],
                           matches[mi])
       IN  /\ highlighted_line' = acc.spans
           /\ last_index' = acc.last_index
           /\ pc' = IF acc.panicked THEN "panicked" ELSE "line_loop"
    /\ mi' = mi + 1
    /\ UNCHANGED <<op, line, text, pattern, highlight_style, matches, highlighted_text>>

\* The loop is over: the trailing span, and the return of highlighted_line.
LineReturn ==
    /\ pc = "line_loop"
    /\ mi > Len(matches)
    /\ LET acc == LineTail(line, [spans |-> highlighted_line, last_index |-> last_index,
                                  panicked |-> FALSE])
       IN  /\ highlighted_line' = acc.spans
           /\ pc' = IF acc.panicked THEN "panicked" ELSE "done"
    /\ UNCHANGED <<op, line, text, pattern, highlight_style, last_index, matches, mi,
                   highlighted_text>>

\* highlight_text(text, pattern, highlight_style) is called:
\* `let mut highlighted_text = Text::default(); let mut last_index = 0;`
CallHighlightText ==
    /\ pc = "idle"
    /\ \E s \in Strings, p \in Patterns, st \in Styles :
          /\ text' = s
          /\ pattern' = p
          /\ highlight_style' = st
    /\ op' = "text"
    /\ pc' = "text_loop"
    /\ highlighted_text' = <<>>
    /\ last_index' = 0
    /\ mi' = 1
    /\ UNCHANGED <<line, matches, highlighted_line>>

\* One iteration of highlight_text's for loop, the call of highlight_line included.
TextLoop ==
    /\ pc = "text_loop"
    /\ mi <= Len(MatchIndices(text))
    /\ LET acc == TextBody(text, pattern, highlight_style,
                           [lines |-> highlighted_text, last_index |-> last_index,
                            panicked |-> FALSE],
                           MatchIndices(text)[mi])
       IN  /\ highlighted_text' = acc.lines
           /\ last_index' = acc.last_index
           /\ pc' = IF acc.panicked THEN "panicked" ELSE "text_loop"
    /\ mi' = mi + 1
    /\ UNCHANGED <<op, line, text, pattern, highlight_style, matches, highlighted_line>>

\* The loop is over: the trailing line, and the return of highlighted_text.
TextReturn ==
    /\ pc = "text_loop"
    /\ mi > Len(MatchIndices(text))
    /\ LET acc == TextTail(text, pattern, highlight_style,
                           [lines |-> highlighted_text, last_index |-> last_index,
                            panicked |-> FALSE])
       IN  /\ highlighted_text' = acc.lines
           /\ pc' = IF acc.panicked THEN "panicked" ELSE "done"
    /\ UNCHANGED <<op, line, text, pattern, highlight_style, last_index, matches, mi,
                   highlighted_line>>

Next ==
    \/ CallHighlightLine
    \/ LineCompile
    \/ LineLoop
    \/ LineReturn
    \/ CallHighlightText
    \/ TextLoop
    \/ TextReturn

Spec == Init /\ [][Next]_vars

TypeOK ==
    /\ op \in {"none", "line", "text"}
    /\ pc \in {"idle", "line_compile", "line_loop", "text_loop", "done", "panicked"}
    /\ line \in Strings
    /\ text \in Strings
    /\ pattern \in Patterns
    /\ highlight_style \in Styles
    /\ last_index \in 0..(MaxLen + 1)

\* ------------------------------------------------------------- helpers of the properties
\* The concatenation of the contents of a Line's spans.
RECURSIVE ConcatSpans(_)
ConcatSpans(spans) ==
    IF spans = <<>> THEN <<>> ELSE Head(spans).content \o ConcatSpans(Tail(spans))

\* The total length of the contents of a Line's spans.
RECURSIVE TotalLen(_)
TotalLen(spans) ==
    IF spans = <<>> THEN 0 ELSE Len(Head(spans).content) + TotalLen(Tail(spans))

LineDone == op = "line" /\ pc = "done"

TextDone == op = "text" /\ pc = "done" /\ RegexNew(pattern)

EndsWithNewline(s) == Len(s) > 0 /\ s[Len(s)] = NL

\* The pattern matches nowhere in s.
MatchesNothing(s, p) == \A i \in 0..Len(s) : MatchEndAt(s, p, i) < 0

\* The pattern matches the empty string.
MatchesEmpty(p) == MatchEndAt(<<>>, p, 0) = 0

\* ------------------------------------------------------------- C1
\* C1 (Reconstruction): when highlight_line has returned, the contents of the
\* spans of its Line, concatenated in order, are exactly the line it was given.
C1_Reconstruction ==
    LineDone => ConcatSpans(highlighted_line) = line

\* A returned call with two adjacent matches and at least one plain span.
C1_Witness ==
    /\ LineDone
    /\ \E k \in 1..(Len(matches) - 1) : matches[k].end = matches[k + 1].start
    /\ Len(highlighted_line) > Len(matches)

\* ------------------------------------------------------------- C2
\* C2 (Invalid pattern is fatal for highlight_text): a call of highlight_text
\* with a pattern that does not compile never returns a Text, and has pushed
\* no Line when it fails.
C2_InvalidPatternFatal ==
    (op = "text" /\ ~RegexNew(pattern)) => (pc # "done" /\ highlighted_text = <<>>)

\* ------------------------------------------------------------- C3
\* The number of newline characters of s.
CountNewlines(s) == Cardinality({i \in 1..Len(s) : s[i] = NL})

\* C3 (Line count): when highlight_text has returned, the number of its Lines
\* is the number of newlines of the text, plus one exactly when the segment
\* after the last newline (the whole text when it has none) is non-empty.
C3_LineCount ==
    TextDone =>
        Len(highlighted_text) =
            CountNewlines(text) + (IF text # <<>> /\ ~EndsWithNewline(text) THEN 1 ELSE 0)

\* A returned call on a text with two newlines or more that ends on a newline.
C3_Witness ==
    /\ TextDone
    /\ EndsWithNewline(text)
    /\ CountNewlines(text) >= 2
    /\ Len(highlighted_text) = CountNewlines(text)

\* ------------------------------------------------------------- C4
\* C4 (Non-overlap preservation): when highlight_line has returned, some
\* positions of the Line, as many as there are matches, hold in order the
\* spans [matches[k].start, matches[k].end) of the line with the given style,
\* one span per match, and every span at another position is unstyled.
C4_NonOverlapPreservation ==
    LineDone =>
        \E S \in SUBSET (1..Len(highlighted_line)) :
            /\ Cardinality(S) = Len(matches)
            /\ \A e \in S :
                  LET k == Cardinality({x \in S : x <= e})
                  IN  highlighted_line[e] =
                          [content |-> SubSeq(line, matches[k].start + 1, matches[k].end),
                           style   |-> highlight_style]
            /\ \A j \in (1..Len(highlighted_line)) \ S :
                  highlighted_line[j].style = DefaultStyle

\* A returned call with a non-default style, two adjacent non-empty matches
\* and a plain span.
C4_Witness ==
    /\ LineDone
    /\ highlight_style # DefaultStyle
    /\ \E k \in 1..(Len(matches) - 1) :
          /\ matches[k].end = matches[k + 1].start
          /\ matches[k].start < matches[k].end
    /\ \E j \in 1..Len(highlighted_line) : highlighted_line[j].style = DefaultStyle

\* ------------------------------------------------------------- C5
\* C5 as stated (Empty input): highlight_line of the empty string returns no
\* span, whatever the valid pattern, and highlight_text of the empty string
\* returns no Line.
C5_EmptyInputAsStated ==
    /\ (LineDone /\ line = <<>>) => highlighted_line = <<>>
    /\ (TextDone /\ text = <<>>) => highlighted_text = <<>>

\* C5 as amended: highlight_line of the empty string returns no span when
\* the pattern does not match the empty string, and exactly one span, empty
\* and carrying the given style, when it does; highlight_text of the empty
\* string returns no Line.
C5_EmptyInput ==
    /\ (LineDone /\ line = <<>>) =>
          highlighted_line =
              (IF MatchesEmpty(pattern)
               THEN <<[content |-> <<>>, style |-> highlight_style]>>
               ELSE <<>>)
    /\ (TextDone /\ text = <<>>) => highlighted_text = <<>>

\* highlight_line has returned for the empty string and a pattern that
\* matches the empty string.
C5_Witness ==
    /\ LineDone
    /\ line = <<>>
    /\ MatchesEmpty(pattern)

\* ------------------------------------------------------------- C6
\* C6 (No-match identity): when the pattern matches nowhere in the line,
\* highlight_line returns one unstyled span holding the whole line, and no
\* span when the line is empty.
C6_NoMatchIdentity ==
    (LineDone /\ MatchesNothing(line, pattern)) =>
        highlighted_line =
            (IF line = <<>> THEN <<>> ELSE <<[content |-> line, style |-> DefaultStyle]>>)

\* A returned call on a non-empty line the pattern matches nowhere in.
C6_Witness ==
    /\ LineDone
    /\ MatchesNothing(line, pattern)
    /\ Len(line) >= 2
    /\ highlight_style # DefaultStyle

\* ------------------------------------------------------------- C7
\* The text split on every newline: the segments between the newlines, the
\* one before the first and the one after the last included.
RECURSIVE SplitOnNewline(_)
SplitOnNewline(s) ==
    IF \A i \in 1..Len(s) : s[i] # NL THEN <<s>>
    ELSE LET i == CHOOSE j \in 1..Len(s) :
                      s[j] = NL /\ \A h \in 1..(j - 1) : s[h] # NL
         IN  <<SubSeq(s, 1, i - 1)>> \o SplitOnNewline(SubSeq(s, i + 1, Len(s)))

\* The segments without the last one when it is empty.
Segments(s) ==
    LET all == SplitOnNewline(s)
    IN  IF all[Len(all)] = <<>> THEN SubSeq(all, 1, Len(all) - 1) ELSE all

\* The reference result: highlight_line of each segment, in order.
SplitAndMap(s, p, st) ==
    [i \in 1..Len(Segments(s)) |-> HighlightLine(Segments(s)[i], p, st).spans]

\* C7 as stated (Split-and-map equivalence): the Text highlight_text returns
\* is the reference result, its i-th Line reconstructs the i-th segment (no
\* match spans a line boundary), and an empty segment yields an empty Line.
C7_SplitAndMapAsStated ==
    TextDone =>
        /\ highlighted_text = SplitAndMap(text, pattern, highlight_style)
        /\ \A i \in 1..Len(highlighted_text) :
              /\ ConcatSpans(highlighted_text[i]) = Segments(text)[i]
              /\ Segments(text)[i] = <<>> => highlighted_text[i] = <<>>

\* C7 as amended: the Text highlight_text returns is the reference result,
\* its i-th Line reconstructs the i-th segment, and an empty segment yields
\* an empty Line when the pattern does not match the empty string, and a
\* Line of one empty span carrying the given style when it does.
C7_SplitAndMap ==
    TextDone =>
        /\ highlighted_text = SplitAndMap(text, pattern, highlight_style)
        /\ \A i \in 1..Len(highlighted_text) :
              /\ ConcatSpans(highlighted_text[i]) = Segments(text)[i]
              /\ Segments(text)[i] = <<>> =>
                    highlighted_text[i] =
                        (IF MatchesEmpty(pattern)
                         THEN <<[content |-> <<>>, style |-> highlight_style]>>
                         ELSE <<>>)

\* A returned call on a text with an empty inner segment, a non-empty segment
\* after it and a match in some Line.
C7_Witness ==
    /\ TextDone
    /\ \E i \in 1..(Len(text) - 2) : text[i] = NL /\ text[i + 1] = NL
    /\ ~EndsWithNewline(text)
    /\ \E i \in 1..Len(highlighted_text) :
          \E j \in 1..Len(highlighted_text[i]) :
              highlighted_text[i][j].style # DefaultStyle

\* ------------------------------------------------------------- C8
\* The spans the step from the current state to the next one pushes.
PushedSpans ==
    SubSeq(highlighted_line', Len(highlighted_line) + 1, Len(highlighted_line'))

\* The end of the loop: the trailing span.
C8_Step ==
    (op = "line" /\ pc = "line_loop" /\ pc' # "line_loop") =>
        /\ Len(PushedSpans) = (IF last_index < Len(line) THEN 1 ELSE 0)
        /\ \A j \in 1..Len(PushedSpans) :
              PushedSpans[j].style = DefaultStyle /\ PushedSpans[j].content # <<>>

\* One iteration of the loop: the gap span and the span of the match.
C8_LoopStep ==
    (op = "line" /\ pc = "line_loop" /\ pc' = "line_loop" /\ mi' = mi + 1) =>
        /\ Len(PushedSpans) = (IF matches[mi].start > last_index THEN 2 ELSE 1)
        /\ Len(PushedSpans) = 2 =>
              PushedSpans[1].style = DefaultStyle /\ PushedSpans[1].content # <<>>

\* With a non-default style, every unstyled span of the Line is non-empty.
C8_State ==
    (op = "line" /\ highlight_style # DefaultStyle) =>
        \A j \in 1..Len(highlighted_line) :
            highlighted_line[j].style = DefaultStyle => highlighted_line[j].content # <<>>

\* C8 (No empty plain fragment): an iteration of highlight_line's loop pushes
\* the styled span of its match, preceded by one unstyled span exactly when
\* the match starts after the cursor, and that span is non-empty; the end of
\* the loop pushes one unstyled span exactly when the cursor is before the
\* end of the line, and that span is non-empty.  With a non-default style, no
\* unstyled span of the Line is ever empty.
C8_NoEmptyPlainFragment ==
    [](C8_State) /\ [][C8_Step /\ C8_LoopStep]_vars

\* A returned call whose first match starts at offset 0, whose matches are
\* adjacent and whose last match ends at the end of the line: no plain span.
C8_Witness ==
    /\ LineDone
    /\ Len(matches) >= 2
    /\ matches[1].start = 0
    /\ \A k \in 1..(Len(matches) - 1) : matches[k].end = matches[k + 1].start
    /\ matches[Len(matches)].end = Len(line)
    /\ Len(highlighted_line) = Len(matches)

\* ------------------------------------------------------------- C9
\* The matches are reported in increasing, non-overlapping order, inside the line.
MatchesOrdered ==
    /\ \A k \in 1..Len(matches) :
          0 <= matches[k].start /\ matches[k].start <= matches[k].end
                                /\ matches[k].end <= Len(line)
    /\ \A k \in 1..(Len(matches) - 1) : matches[k].end <= matches[k + 1].start

\* The cursors and the slices about to be taken, in every state.
C9_Inv ==
    /\ (op = "line" /\ pc = "line_loop") =>
          /\ MatchesOrdered
          /\ 0 <= last_index /\ last_index <= Len(line)
          /\ last_index = TotalLen(highlighted_line)
          /\ mi <= Len(matches) =>
                /\ last_index <= matches[mi].start
                /\ SliceInRange(line, last_index, matches[mi].start)
          /\ mi > Len(matches) => SliceInRange(line, last_index, Len(line))
    /\ (op = "line" /\ pc = "panicked") => ~RegexNew(pattern)
    /\ op = "text" =>
          /\ 0 <= last_index /\ last_index <= Len(text)
          /\ (pc = "text_loop" /\ mi <= Len(MatchIndices(text))) =>
                SliceInRange(text, last_index, MatchIndices(text)[mi])
          /\ pc = "panicked" => ~RegexNew(pattern)

\* C9 (Cursor invariant): in highlight_line's loop the cursor stays between 0
\* and the length of the line, equals the total length of the spans pushed so
\* far, and every slice the loop takes is in range; highlight_text's cursor
\* stays between 0 and the length of the text; no slice panics; and no step
\* decreases a cursor.
C9_CursorInvariant ==
    [](C9_Inv) /\ [][last_index' >= last_index]_vars

\* highlight_line's loop after two iterations or more, with a match left.
C9_Witness ==
    /\ op = "line"
    /\ pc = "line_loop"
    /\ mi >= 3
    /\ mi <= Len(matches)
    /\ last_index > 0
    /\ last_index < matches[mi].start

\* ------------------------------------------------------------- C10
\* The Lines joined with newlines, each Line the concatenation of its spans.
RECURSIVE JoinLines(_)
JoinLines(lines) ==
    IF lines = <<>> THEN <<>>
    ELSE IF Len(lines) = 1 THEN ConcatSpans(lines[1])
         ELSE ConcatSpans(lines[1]) \o <<NL>> \o JoinLines(Tail(lines))

\* C10 (Document round-trip up to one trailing newline): when highlight_text
\* has returned, its Lines joined with newlines are the text, without its last
\* newline when it ends on one; no span holds a newline; and a non-empty text
\* that does not end on a newline gives the Text that the same text followed
\* by a newline gives.
C10_RoundTrip ==
    TextDone =>
        /\ JoinLines(highlighted_text) =
              (IF EndsWithNewline(text) THEN SubSeq(text, 1, Len(text) - 1) ELSE text)
        /\ \A i \in 1..Len(highlighted_text) :
              \A j \in 1..Len(highlighted_text[i]) :
                  \A h \in 1..Len(highlighted_text[i][j].content) :
                      highlighted_text[i][j].content[h] # NL
        /\ (text # <<>> /\ ~EndsWithNewline(text)) =>
              LET r == HighlightText(Append(text, NL), pattern, highlight_style)
              IN  ~r.panicked /\ r.lines = highlighted_text

\* A returned call on a text that holds an inner newline and ends on a newline.
C10_Witness ==
    /\ TextDone
    /\ EndsWithNewline(text)
    /\ \E i \in 2..(Len(text) - 2) : text[i] = NL
    /\ Len(highlighted_text) >= 2

====
